---- MODULE Spec2Model ----
(***************************************************************************)
(* Model of gaze_tracking/eye.py (class Eye) of GazeTracking: the per-eye  *)
(* analysis of one frame (blinking ratio, eye isolation, calibration      *)
(* feeding, pupil construction).                                          *)
(*                                                                         *)
(* Values are records tagged by "kind", so that None, numbers and objects  *)
(* can be compared with each other.  A float that is a quotient of two     *)
(* Euclidean distances is kept exactly, as the pair of the squared         *)
(* distances (num2, den2): it stands for sqrt(num2) / sqrt(den2).          *)
(***************************************************************************)
EXTENDS Integers, Sequences, FiniteSets, TLC

VARIABLES
    original_frame,  \* geometry and concurrent runs: the frame being analyzed
    landmarks,       \* geometry and concurrent runs: landmarks.part(36..47)
    eye,             \* the Eye object built last (its attributes)
    last,            \* the last Eye(...) call: whether one was made, and its side
    calibration,     \* the Calibration object: per side, the recorded thresholds
    calls,           \* the calls the last Eye(...) made on calibration, in order
    nb_samples,      \* per side, how many samples its analyses have recorded
    blinking,        \* geometry runs: per side, the result of _blinking_ratio
    isolated,        \* geometry runs: per side, the Eye after _isolate
    pc,              \* concurrent frame: per side, the next step of its analysis
    seen,            \* concurrent frame: per side, what is_complete() returned
    passed,          \* concurrent frame: per side, the threshold given to Pupil
    frame_start      \* concurrent frame: the calibration when the frame began

vars == <<original_frame, landmarks, eye, last, calibration, calls, nb_samples,
          blinking, isolated, pc, seen, passed, frame_start>>

-----------------------------------------------------------------------------
(* Values *)

None == [kind |-> "None"]
Unset == [kind |-> "unset"]   \* an attribute that was never assigned
ZeroDivisionError == [kind |-> "ZeroDivisionError"]
Float2(n2, d2) == [kind |-> "float", num2 |-> n2, den2 |-> d2]
Half(n) == [kind |-> "float", num |-> n, den |-> 2]
IntVal(n) == [kind |-> "int", value |-> n]
Bool(b) == [kind |-> "bool", value |-> b]
Point(px, py) == [x |-> px, y |-> py]
Tuple(a, b) == [kind |-> "tuple", x |-> a, y |-> b]

Min2(a, b) == IF a <= b THEN a ELSE b
Max2(a, b) == IF a >= b THEN a ELSE b
MinOf(S) == CHOOSE m \in S : \A n \in S : m <= n
MaxOf(S) == CHOOSE m \in S : \A n \in S : m >= n
Abs(n) == IF n >= 0 THEN n ELSE -n

LEFT_EYE_POINTS == <<36, 37, 38, 39, 40, 41>>
RIGHT_EYE_POINTS == <<42, 43, 44, 45, 46, 47>>
Sides == {0, 1}
PointsOf(s) == IF s = 0 THEN LEFT_EYE_POINTS ELSE RIGHT_EYE_POINTS
LandmarkIndexes == 36..47

\* Eye.__init__, lines 17-21: every attribute it assigns is None; blinking is
\* not assigned there.
EyeInit ==
    [frame |-> None, origin |-> None, center |-> None, pupil |-> None,
     landmark_points |-> None, blinking |-> Unset]

-----------------------------------------------------------------------------
(* Eye._middle_point *)

\* int(n / 2): true division, then truncation towards zero.
IntHalf(n) == IF n >= 0 THEN n \div 2 ELSE -((-n) \div 2)

\* y taken from p1.x and p2.y.
_middle_point_mixed(p1, p2) ==
    Tuple(IntHalf(p1.x + p2.x), IntHalf(p1.x + p2.y))

_middle_point(p1, p2) ==
    Tuple(IntHalf(p1.x + p2.x), IntHalf(p1.y + p2.y))

-----------------------------------------------------------------------------
(* Eye._blinking_ratio *)

\* math.hypot(dx, dy), squared.
Hypot2(dx, dy) == dx * dx + dy * dy

\* a / b on floats: raises ZeroDivisionError when b is 0.0.
TrueDiv(a2, b2) == IF b2 = 0 THEN ZeroDivisionError ELSE Float2(a2, b2)

BlinkLeft(lms, points) == Tuple(lms[points[1]].x, lms[points[1]].y)
BlinkRight(lms, points) == Tuple(lms[points[4]].x, lms[points[4]].y)
BlinkTop(lms, points) == _middle_point(lms[points[2]], lms[points[3]])
BlinkBottom(lms, points) == _middle_point(lms[points[6]], lms[points[5]])

\* The division without the try/except around it.
_blinking_ratio_uncaught(lms, points) ==
    LET left == BlinkLeft(lms, points)
        right == BlinkRight(lms, points)
        top == BlinkTop(lms, points)
        bottom == BlinkBottom(lms, points)
    IN  TrueDiv(Hypot2(left.x - right.x, left.y - right.y),
                Hypot2(top.x - bottom.x, top.y - bottom.y))

\* Width and height measured along the axes only.
_blinking_ratio_axes(lms, points) ==
    LET left == BlinkLeft(lms, points)
        right == BlinkRight(lms, points)
        top == BlinkTop(lms, points)
        bottom == BlinkBottom(lms, points)
        ratio == TrueDiv(Hypot2(left.x - right.x, 0), Hypot2(0, top.y - bottom.y))
    IN  IF ratio = ZeroDivisionError THEN None ELSE ratio

_blinking_ratio(lms, points) ==
    LET left == BlinkLeft(lms, points)
        right == BlinkRight(lms, points)
        top == BlinkTop(lms, points)
        bottom == BlinkBottom(lms, points)
        eye_width == Hypot2(left.x - right.x, left.y - right.y)
        eye_height == Hypot2(top.x - bottom.x, top.y - bottom.y)
        ratio == TrueDiv(eye_width, eye_height)
    IN  IF ratio = ZeroDivisionError THEN None ELSE ratio

-----------------------------------------------------------------------------
(* Eye._isolate *)

margin == 5

\* a[start:stop] on an axis of length n: a negative index counts from the end,
\* both are clamped to 0..n, and the slice is empty when stop <= start.
SliceIndex(i, n) == IF i < 0 THEN Max2(i + n, 0) ELSE Min2(i, n)
SliceStart(start, stop, n) == SliceIndex(start, n)
SliceLen(start, stop, n) == Max2(SliceIndex(stop, n) - SliceIndex(start, n), 0)

\* The six (x, y) rows of region.
Region(lms, points) == [i \in 1..6 |-> Tuple(lms[points[i]].x, lms[points[i]].y)]

\* The crop eye[min_y:max_y, min_x:max_x] is kept as the rectangle of frame
\* pixels it holds (x0, y0, width, height) and the eye image's content; the
\* mask only changes pixel values outside the polygon.
NdArray(fx0, fy0, w, h, c) ==
    [kind |-> "ndarray", x0 |-> fx0, y0 |-> fy0, width |-> w, height |-> h,
     content |-> c]

_isolate(self, frame, lms, points) ==
    LET region == Region(lms, points)
        height == frame.height
        width == frame.width
        min_x == MinOf({region[i].x : i \in 1..6}) - margin
        max_x == MaxOf({region[i].x : i \in 1..6}) + margin
        min_y == MinOf({region[i].y : i \in 1..6}) - margin
        max_y == MaxOf({region[i].y : i \in 1..6}) + margin
        crop == NdArray(SliceStart(min_x, max_x, width),
                        SliceStart(min_y, max_y, height),
                        SliceLen(min_x, max_x, width),
                        SliceLen(min_y, max_y, height),
                        frame.content[points[1]])
    IN  [self EXCEPT
            !.landmark_points = region,
            !.frame = crop,
            !.origin = Tuple(min_x, min_y),
            !.center = Tuple(Half(crop.width), Half(crop.height))]

-----------------------------------------------------------------------------
(* The Calibration object (gaze_tracking/calibration.py): per side, the     *)
(* history of recorded best thresholds.                                     *)

\* What evaluate() finds in an eye image: the threshold whose region count
\* matches the target best, or that no threshold does.
NoBest == [kind |-> "NoBest"]
Best(t) == [kind |-> "best", value |-> t]

\* The sample count each side has to reach, and the size of a history queue.
nb_frames == 2
QueueCap == 3

RECURSIVE SumSeq(_)
SumSeq(q) == IF q = <<>> THEN 0 ELSE Head(q) + SumSeq(Tail(q))

\* Both sides have reached the sample count.
is_complete(cal) == \A s \in Sides : Len(cal[s]) >= nb_frames

\* Append to a bounded queue: the oldest entry is evicted when it is full.
Push(q, t) == IF Len(q) >= QueueCap THEN Append(Tail(q), t) ELSE Append(q, t)

\* Records the eye image's best threshold in the side's history; an image in
\* which no threshold gives the target region count contributes no sample.
evaluate(cal, eye_frame, side) ==
    IF side \in Sides /\ eye_frame.content # NoBest
    THEN [cal EXCEPT ![side] = Push(@, eye_frame.content.value)]
    ELSE cal

\* The average of the side's recorded thresholds: undefined while there are
\* none.
Undefined == [kind |-> "undefined"]
threshold(cal, side) ==
    IF side \notin Sides THEN None
    ELSE IF cal[side] = <<>> THEN Undefined
    ELSE IntVal(SumSeq(cal[side]) \div Len(cal[side]))

-----------------------------------------------------------------------------
(* Eye._analyze *)

\* Lines 120-125: the landmark indexes of the side, or None for the return.
SelectPoints_else_right(side) ==
    IF side = 0 THEN [kind |-> "list", points |-> LEFT_EYE_POINTS]
    ELSE [kind |-> "list", points |-> RIGHT_EYE_POINTS]

SelectPoints(side) ==
    IF side = 0 THEN [kind |-> "list", points |-> LEFT_EYE_POINTS]
    ELSE IF side = 1 THEN [kind |-> "list", points |-> RIGHT_EYE_POINTS]
    ELSE None

\* Line 130: if not calibration.is_complete()
NeedsEvaluate_always(cal) == TRUE
NeedsEvaluate_inverted(cal) == is_complete(cal)
NeedsEvaluate(cal) == ~is_complete(cal)

\* Line 131: calibration.evaluate(self.frame, side)
EvaluateSide_left(cal, eye_frame, side) == evaluate(cal, eye_frame, 0)
EvaluateSide_other(cal, eye_frame, side) == evaluate(cal, eye_frame, 1 - side)
EvaluateSide(cal, eye_frame, side) == evaluate(cal, eye_frame, side)

\* Line 133: threshold = calibration.threshold(side)
ThresholdFor(cal, side) == threshold(cal, side)

\* Line 134: Pupil(self.frame, threshold), kept as what it is built from.
Pupil(eye_frame, th) == [kind |-> "Pupil", frame |-> eye_frame, threshold |-> th]

Call(op, side, ret) == [op |-> op, side |-> side, ret |-> ret]

\* The Eye after _analyze, the calibration after it, and the calls it made on
\* the calibration.
_analyze(self, frame, lms, side, cal) ==
    LET sel == SelectPoints(side)
    IN  IF sel = None
        THEN [self |-> self, calibration |-> cal, calls |-> <<>>]
        ELSE
            LET points == sel.points
                s1 == [self EXCEPT !.blinking = _blinking_ratio(lms, points)]
                s2 == _isolate(s1, frame, lms, points)
                need == NeedsEvaluate(cal)
                cal2 == IF need THEN EvaluateSide(cal, s2.frame, side) ELSE cal
                th == ThresholdFor(cal2, side)
            IN  [self |-> [s2 EXCEPT !.pupil = Pupil(s2.frame, th)],
                 calibration |-> cal2,
                 calls |-> <<Call("is_complete", side, Bool(~need))>>
                           \o (IF need THEN <<Call("evaluate", side, None)>>
                               ELSE <<>>)
                           \o <<Call("threshold", side, th)>>]

-----------------------------------------------------------------------------
(* Geometry runs: _blinking_ratio and _isolate applied to bounded inputs *)

\* Frame contents are keyed by the first landmark index of the eye.
Content(bl, br) == (36 :> bl) @@ (42 :> br)
GeomFrame == [width |-> 100, height |-> 24, content |-> Content(NoBest, NoBest)]

Scenario ==
    <<Point(36, 10), Point(40, 5), Point(44, 5), Point(48, 10), Point(44, 14),
      Point(40, 14)>>

\* A strictly convex, thin, steeply tilted hexagon: the upper-lid midpoint
\* (38.5, 8) and the lower-lid midpoint (38, 8.5) both truncate to (38, 8).
ThinTilted ==
    <<Point(36, 5), Point(37, 6), Point(40, 10), Point(40, 11), Point(39, 10),
      Point(37, 7)>>

\* Eye shapes around the scenario: tilted corners, a zero-width eye, lid
\* midpoints that coincide exactly or only after truncation, odd x sums.
Shapes ==
    { <<p0, p1, p2, p3, p4, p5>> :
        p0 \in {Point(36, 10), Point(36, 11)},
        p1 \in {Point(40, 5), Point(41, 5), Point(40, 10)},
        p2 \in {Point(44, 5), Point(44, 10)},
        p3 \in {Point(48, 10), Point(36, 10)},
        p4 \in {Point(44, 14), Point(45, 14), Point(44, 10)},
        p5 \in {Point(40, 14), Point(40, 10), Point(40, 11)} }
    \cup {ThinTilted}

\* Translations: in place, against the top-left corner, against the right and
\* bottom borders.
Offsets == {Point(0, 0), Point(-34, -3), Point(51, 9), Point(3, -5)}

Translate(shape, off) ==
    [i \in 1..6 |-> Point(shape[i].x + off.x, shape[i].y + off.y)]

\* The right eye that is the left eye's mirror image in the frame: x becomes
\* width - 1 - x, and the canonical order (left corner, upper lid left to
\* right, right corner, lower lid right to left) is restored.
MirrorX(p, width) == Point(width - 1 - p.x, p.y)
MirrorEye(shape, width) ==
    <<MirrorX(shape[4], width), MirrorX(shape[3], width), MirrorX(shape[2], width),
      MirrorX(shape[1], width), MirrorX(shape[6], width), MirrorX(shape[5], width)>>

RightShift == Point(16, 1)

LandmarksOf(l, r) ==
    [i \in LandmarkIndexes |-> IF i <= 41 THEN l[i - 35] ELSE r[i - 41]]

\* The right eye is the left eye mirrored, or the left eye moved to the right.
GeomLandmarks ==
    { LandmarksOf(Translate(sh, off),
                  IF mirrored THEN MirrorEye(Translate(sh, off), GeomFrame.width)
                  ELSE Translate(Translate(sh, off), RightShift)) :
        sh \in Shapes, off \in Offsets, mirrored \in BOOLEAN }

\* Values the variables of the other runs keep in a geometry run.
NoLast == [made |-> FALSE, side |-> 0]
EmptyCalibration == [s \in Sides |-> <<>>]
Idle == [s \in Sides |-> "idle"]

InitGeom ==
    /\ original_frame = GeomFrame
    /\ landmarks \in GeomLandmarks
    /\ blinking = [s \in Sides |-> Unset]
    /\ isolated = [s \in Sides |-> EyeInit]
    /\ eye = EyeInit
    /\ last = NoLast
    /\ calibration = EmptyCalibration
    /\ calls = <<>>
    /\ nb_samples = [s \in Sides |-> 0]
    /\ pc = Idle
    /\ seen = [s \in Sides |-> None]
    /\ passed = [s \in Sides |-> None]
    /\ frame_start = EmptyCalibration

\* self.blinking = self._blinking_ratio(landmarks, points), for one side.
GeomBlinking(s) ==
    /\ blinking[s] = Unset
    /\ blinking' = [blinking EXCEPT ![s] = _blinking_ratio(landmarks, PointsOf(s))]
    /\ UNCHANGED <<original_frame, landmarks, eye, last, calibration, calls,
                   nb_samples, isolated, pc, seen, passed, frame_start>>

\* self._isolate(original_frame, landmarks, points), for one side.
GeomIsolate(s) ==
    /\ isolated[s].frame = None
    /\ isolated' = [isolated EXCEPT
                      ![s] = _isolate(EyeInit, original_frame, landmarks, PointsOf(s))]
    /\ UNCHANGED <<original_frame, landmarks, eye, last, calibration, calls,
                   nb_samples, blinking, pc, seen, passed, frame_start>>

NextGeom ==
    \/ \E s \in Sides : GeomBlinking(s)
    \/ \E s \in Sides : GeomIsolate(s)

SpecGeom == InitGeom /\ [][NextGeom]_vars

-----------------------------------------------------------------------------
(* A session: Eye(original_frame, landmarks, side, calibration) is built    *)
(* again and again on one Calibration, one call at a time.                  *)

InvalidSides == {-1, 2}
Contents == {NoBest, Best(20), Best(45)}
\* Every eye image of a session frame: no best threshold, or one of two.
SessionFrames ==
    { [width |-> 100, height |-> 24, content |-> c] :
        c \in {Content(NoBest, NoBest), Content(Best(20), Best(45)),
               Content(Best(45), Best(20))} }

\* Both lids flat on one line: the blinking ratio is None.
ClosedEye ==
    <<Point(36, 10), Point(40, 10), Point(44, 10), Point(48, 10), Point(44, 10),
      Point(40, 10)>>

SessionLandmarks ==
    { LandmarksOf(Scenario, MirrorEye(Scenario, 100)),
      LandmarksOf(ClosedEye, Translate(Scenario, RightShift)) }

\* How many samples one side may record in a run.
MaxSamples == 4

Init ==
    /\ original_frame = GeomFrame
    /\ landmarks = LandmarksOf(Scenario, MirrorEye(Scenario, 100))
    /\ eye = EyeInit
    /\ last = NoLast
    /\ calibration = EmptyCalibration
    /\ calls = <<>>
    /\ nb_samples = [s \in Sides |-> 0]
    /\ blinking = [s \in Sides |-> Unset]
    /\ isolated = [s \in Sides |-> EyeInit]
    /\ pc = Idle
    /\ seen = [s \in Sides |-> None]
    /\ passed = [s \in Sides |-> None]
    /\ frame_start = EmptyCalibration

Evaluated(cs) == \E i \in 1..Len(cs) : cs[i].op = "evaluate"

\* The analysis of this side records a sample in this frame.
Records(side, frame) ==
    /\ side \in Sides
    /\ NeedsEvaluate(calibration)
    /\ frame.content[PointsOf(side)[1]] # NoBest

\* Eye(frame, lms, side, calibration): __init__, which ends in _analyze.
NewEye(frame, lms, side) ==
    /\ Records(side, frame) => nb_samples[side] < MaxSamples
    /\ \E r \in {_analyze(EyeInit, frame, lms, side, calibration)} :
           /\ eye' = r.self
           /\ calibration' = r.calibration
           /\ calls' = r.calls
           /\ nb_samples' =
                 IF side \in Sides /\ Evaluated(r.calls)
                       /\ frame.content[PointsOf(side)[1]] # NoBest
                 THEN [nb_samples EXCEPT ![side] = @ + 1]
                 ELSE nb_samples
    /\ last' = [made |-> TRUE, side |-> side]
    /\ UNCHANGED <<original_frame, landmarks, blinking, isolated, pc, seen,
                   passed, frame_start>>

Next ==
    \E frame \in SessionFrames, lms \in SessionLandmarks,
       side \in Sides \cup InvalidSides :
        NewEye(frame, lms, side)

Spec == Init /\ [][Next]_vars

-----------------------------------------------------------------------------
(* One frame whose two eyes are analyzed concurrently: each analysis is a   *)
(* thread that runs lines 120-131 up to the is_complete() test, then the    *)
(* evaluate call, then lines 133-134, and the two are joined.               *)

ConcFrames ==
    { [width |-> 100, height |-> 24, content |-> Content(bl, br)] :
        bl \in Contents, br \in Contents }

InitConc ==
    /\ original_frame = GeomFrame
    /\ landmarks = LandmarksOf(Scenario, MirrorEye(Scenario, 100))
    /\ eye = EyeInit
    /\ last = NoLast
    /\ calibration = EmptyCalibration
    /\ calls = <<>>
    /\ nb_samples = [s \in Sides |-> 0]
    /\ blinking = [s \in Sides |-> Unset]
    /\ isolated = [s \in Sides |-> EyeInit]
    /\ pc = Idle
    /\ seen = [s \in Sides |-> None]
    /\ passed = [s \in Sides |-> None]
    /\ frame_start = EmptyCalibration

\* A frame arrives once the analyses of the frame before are joined.
BeginFrame(frame) ==
    /\ \A s \in Sides : pc[s] \in {"idle", "done"}
    /\ original_frame' = frame
    /\ frame_start' = calibration
    /\ pc' = [s \in Sides |-> "check"]
    /\ seen' = [s \in Sides |-> None]
    /\ passed' = [s \in Sides |-> None]
    /\ isolated' = [s \in Sides |-> EyeInit]
    /\ UNCHANGED <<landmarks, eye, last, calibration, calls, nb_samples, blinking>>

\* Lines 120-130: blinking ratio, isolation, and the is_complete() test.
ConcCheck(s) ==
    /\ pc[s] = "check"
    /\ isolated' =
          [isolated EXCEPT
              ![s] = _isolate([EyeInit EXCEPT
                                  !.blinking = _blinking_ratio(landmarks, PointsOf(s))],
                              original_frame, landmarks, PointsOf(s))]
    /\ seen' = [seen EXCEPT ![s] = Bool(~NeedsEvaluate(calibration))]
    /\ pc' = [pc EXCEPT ![s] = IF NeedsEvaluate(calibration) THEN "evaluate"
                               ELSE "threshold"]
    /\ UNCHANGED <<original_frame, landmarks, eye, last, calibration, calls,
                   nb_samples, blinking, passed, frame_start>>

\* Line 131.
ConcEvaluate(s) ==
    /\ pc[s] = "evaluate"
    /\ calibration' = EvaluateSide(calibration, isolated[s].frame, s)
    /\ pc' = [pc EXCEPT ![s] = "threshold"]
    /\ UNCHANGED <<original_frame, landmarks, eye, last, calls, nb_samples,
                   blinking, isolated, seen, passed, frame_start>>

\* Lines 133-134.
ConcThreshold(s) ==
    /\ pc[s] = "threshold"
    /\ passed' = [passed EXCEPT ![s] = ThresholdFor(calibration, s)]
    /\ isolated' = [isolated EXCEPT
                      ![s].pupil = Pupil(isolated[s].frame,
                                         ThresholdFor(calibration, s))]
    /\ pc' = [pc EXCEPT ![s] = "done"]
    /\ UNCHANGED <<original_frame, landmarks, eye, last, calibration, calls,
                   nb_samples, blinking, seen, frame_start>>

NextConc ==
    \/ \E frame \in ConcFrames : BeginFrame(frame)
    \/ \E s \in Sides : ConcCheck(s)
    \/ \E s \in Sides : ConcEvaluate(s)
    \/ \E s \in Sides : ConcThreshold(s)

SpecConc == InitConc /\ [][NextConc]_vars

-----------------------------------------------------------------------------
(* Geometry properties *)

EyePoints(s) == [i \in 1..6 |-> landmarks[PointsOf(s)[i]]]

\* z component of (b - a) x (c - b).
Cross(a, b, c) == (b.x - a.x) * (c.y - b.y) - (b.y - a.y) * (c.x - b.x)
Succ6(i) == (i % 6) + 1

\* A proper hexagon: strictly convex, every turn in the same direction.
ProperHexagon(h) ==
    \/ \A i \in 1..6 : Cross(h[i], h[Succ6(i)], h[Succ6(Succ6(i))]) > 0
    \/ \A i \in 1..6 : Cross(h[i], h[Succ6(i)], h[Succ6(Succ6(i))]) < 0

TruncMid(p, q) == Point(IntHalf(p.x + q.x), IntHalf(p.y + q.y))
UpperMid(s) == TruncMid(EyePoints(s)[2], EyePoints(s)[3])
LowerMid(s) == TruncMid(EyePoints(s)[6], EyePoints(s)[5])

IsFloat(r) == r.kind = "float"
Positive(r) == IsFloat(r) /\ r.num2 > 0 /\ r.den2 > 0

\* C3 as stated: _blinking_ratio never raises; a proper hexagon gives a
\* positive finite ratio; coinciding truncated lid midpoints give None.
C3_Original ==
    \A s \in Sides :
        blinking[s] # Unset =>
            /\ blinking[s] # ZeroDivisionError
            /\ ProperHexagon(EyePoints(s)) => Positive(blinking[s])
            /\ UpperMid(s) = LowerMid(s) => blinking[s] = None

\* C3 amended: _blinking_ratio never raises; it returns None exactly when the
\* truncated lid midpoints coincide (which happens for some proper hexagons
\* too), and otherwise a finite ratio that is positive when the two corners
\* differ, as they do in a proper hexagon.
C3_NoRaise ==
    \A s \in Sides :
        blinking[s] # Unset =>
            /\ blinking[s] # ZeroDivisionError
            /\ UpperMid(s) = LowerMid(s) => blinking[s] = None
            /\ UpperMid(s) # LowerMid(s) =>
                  /\ IsFloat(blinking[s])
                  /\ blinking[s].den2 > 0
                  /\ blinking[s].num2 >= 0
                  /\ EyePoints(s)[1] # EyePoints(s)[4] => Positive(blinking[s])
                  /\ ProperHexagon(EyePoints(s)) => Positive(blinking[s])

\* A proper hexagon whose truncated lid midpoints coincide was analyzed.
C3_Witness ==
    \E s \in Sides :
        /\ blinking[s] = None
        /\ ProperHexagon(EyePoints(s))
        /\ UpperMid(s) = LowerMid(s)

\* Two ratios are the same number (or both undefined).
SameRatio(a, b) ==
    IF IsFloat(a) /\ IsFloat(b) THEN a.num2 * b.den2 = b.num2 * a.den2 ELSE a = b

\* |r - 1.5| <= 0.1, on the squares: 1.96 <= r^2 <= 2.56.
AboutOneAndAHalf(r) ==
    IsFloat(r) /\ 196 * r.den2 <= 100 * r.num2 /\ 100 * r.num2 <= 256 * r.den2

LeftIsScenario == EyePoints(0) = Scenario
RightIsMirror == EyePoints(1) = MirrorEye(EyePoints(0), original_frame.width)
BothBlinked == blinking[0] # Unset /\ blinking[1] # Unset

\* The x sums of the upper-lid pair and of the lower-lid pair are both even or
\* both odd.
SameParity(s) ==
    (EyePoints(s)[2].x + EyePoints(s)[3].x) % 2
        = (EyePoints(s)[6].x + EyePoints(s)[5].x) % 2

\* C4 as stated: the scenario's ratio is about 1.5, and a left eye and its
\* mirror image analyzed as the right eye have the same ratio.
C4_Original ==
    /\ (LeftIsScenario /\ blinking[0] # Unset) => AboutOneAndAHalf(blinking[0])
    /\ (RightIsMirror /\ BothBlinked) => SameRatio(blinking[0], blinking[1])

\* C4 amended: the scenario's ratio is 12/9 (lid midpoints (42, 5) and
\* (42, 14)), which is not about 1.5; a left eye inside the frame and its
\* mirror image have the same ratio when the x sums of the two lid pairs have
\* the same parity, as in the scenario.
C4_Mirror ==
    /\ (LeftIsScenario /\ blinking[0] # Unset) =>
          /\ blinking[0] = Float2(12 * 12, 9 * 9)
          /\ ~AboutOneAndAHalf(blinking[0])
    /\ (RightIsMirror /\ BothBlinked /\ SameParity(0)) =>
          SameRatio(blinking[0], blinking[1])

\* The scenario and its mirror image were both analyzed.
C4_Witness ==
    /\ LeftIsScenario /\ RightIsMirror /\ BothBlinked
    /\ IsFloat(blinking[1])

XsOf(s) == {EyePoints(s)[i].x : i \in 1..6}
YsOf(s) == {EyePoints(s)[i].y : i \in 1..6}

InFrame(s) ==
    \A i \in 1..6 :
        /\ 0 <= EyePoints(s)[i].x /\ EyePoints(s)[i].x < original_frame.width
        /\ 0 <= EyePoints(s)[i].y /\ EyePoints(s)[i].y < original_frame.height

\* C6 as stated: for six points inside the frame the crop is the bounding box
\* grown by 5 pixels on every side, origin is its top-left corner and center
\* is half its size.
C6_Original ==
    \A s \in Sides :
        (isolated[s].frame # None /\ InFrame(s)) =>
            LET w == MaxOf(XsOf(s)) - MinOf(XsOf(s)) + 10
                h == MaxOf(YsOf(s)) - MinOf(YsOf(s)) + 10
            IN  /\ isolated[s].origin = Tuple(MinOf(XsOf(s)) - 5, MinOf(YsOf(s)) - 5)
                /\ isolated[s].frame.x0 = isolated[s].origin.x
                /\ isolated[s].frame.y0 = isolated[s].origin.y
                /\ isolated[s].frame.width = w
                /\ isolated[s].frame.height = h
                /\ isolated[s].center = Tuple(Half(w), Half(h))

Dist2(p, q) == (p.x - q.x) * (p.x - q.x) + (p.y - q.y) * (p.y - q.y)

-----------------------------------------------------------------------------
(* Calibration properties of a session *)

ValidCall == last.made /\ last.side \in Sides
Reached(s) == nb_samples[s] >= nb_frames

\* C1: once is_complete() is true it stays true, and an Eye built afterwards
\* does not call evaluate, changes neither history, gets the threshold that
\* was already in force, and leaves threshold(side) of both sides as it was.
C1_Frozen ==
    [][is_complete(calibration) =>
          /\ is_complete(calibration')
          /\ ~Evaluated(calls')
          /\ calibration' = calibration
          /\ \A s \in Sides : threshold(calibration', s) = threshold(calibration, s)
          /\ last'.side \in Sides =>
                eye'.pupil.threshold = threshold(calibration, last'.side)]_vars

\* An Eye was built after calibration had completed.
C1_Witness ==
    /\ ValidCall
    /\ is_complete(calibration)
    /\ Len(calls) = 2
    /\ calls[1] = Call("is_complete", last.side, Bool(TRUE))
    /\ eye.pupil.threshold.kind = "int"

\* C2: is_complete() is true exactly when the analyses of the left eye and
\* those of the right eye have each recorded the sample count; it is false
\* while either side is below it.
C2_Complete ==
    /\ is_complete(calibration) <=> (Reached(0) /\ Reached(1))
    /\ \A s \in Sides : ~Reached(s) => ~is_complete(calibration)

\* One side has reached the count, the other has not.
C2_Witness ==
    /\ ValidCall
    /\ \E s \in Sides : Reached(s) /\ ~Reached(1 - s)
    /\ ~is_complete(calibration)

\* C5: Eye(...) with a side that is neither 0 nor 1 leaves every attribute as
\* __init__ set it, calls nothing on the calibration and does not change it.
C5_InvalidSideNoOp ==
    [][(last'.made /\ last'.side \notin Sides) =>
          /\ eye' = EyeInit
          /\ calls' = <<>>
          /\ calibration' = calibration]_vars

\* An Eye was built with an invalid side on a calibration that holds samples.
C5_Witness ==
    /\ last.made
    /\ last.side \notin Sides
    /\ eye = EyeInit
    /\ calibration[0] # <<>>

\* C8 as stated: the analysis of side s calls evaluate exactly when side s is
\* below its sample count, and does not change the history of a side that has
\* reached it.
C8_Original ==
    [][last'.side \in Sides =>
          LET s == last'.side
          IN  /\ Evaluated(calls') <=> ~Reached(s)
              /\ Reached(s) => calibration'[s] = calibration[s]]_vars

\* C8 amended: the analysis of side s calls evaluate exactly when
\* is_complete() is false, that is while either side is below the count; it
\* never changes the other side's history, and changes none once both sides
\* have reached the count.
C8_WholeCalibration ==
    [][last'.side \in Sides =>
          LET s == last'.side
          IN  /\ Evaluated(calls') <=> ~(Reached(0) /\ Reached(1))
              /\ calibration'[1 - s] = calibration[1 - s]
              /\ (Reached(0) /\ Reached(1)) => calibration' = calibration]_vars

\* A side that had reached its count recorded one more sample while the other
\* side was still below it.
C8_Witness ==
    /\ ValidCall
    /\ Evaluated(calls)
    /\ nb_samples[last.side] > nb_frames
    /\ ~Reached(1 - last.side)

\* C10 as stated: whenever an Eye asks for threshold(side), that side's
\* history holds a sample and the threshold is a defined average.
C10_Original ==
    \A i \in 1..Len(calls) :
        calls[i].op = "threshold" =>
            /\ calibration[calls[i].side] # <<>>
            /\ calls[i].ret.kind = "int"

-----------------------------------------------------------------------------
(* Concurrent analysis of the two eyes of a frame *)

\* The frame's two Eyes built one after the other, in the given order.
Sequential(first, second) ==
    LET r1 == _analyze(EyeInit, original_frame, landmarks, first, frame_start)
        r2 == _analyze(EyeInit, original_frame, landmarks, second, r1.calibration)
    IN  [calibration |-> r2.calibration,
         passed |-> (first :> r1.self.pupil.threshold)
                    @@ (second :> r2.self.pupil.threshold)]

Joined == \A s \in Sides : pc[s] = "done"
SameAs(r) == calibration = r.calibration /\ passed = r.passed

\* C9 as stated: however the two analyses interleave, the calibration and the
\* thresholds given to Pupil are those of left then right.
C9_Original == Joined => SameAs(Sequential(0, 1))

\* C9 amended: an analysis writes only its own side's history, but
\* is_complete() reads both, so every interleaving ends as one of the two
\* sequential orders does (left then right, or right then left).
C9_Serializable ==
    /\ \A s \in Sides :
          pc[s] \in {"check", "evaluate"} => calibration[s] = frame_start[s]
    /\ Joined => (SameAs(Sequential(0, 1)) \/ SameAs(Sequential(1, 0)))

\* An interleaving ended as right then left does, and not as left then right.
C9_Witness ==
    /\ Joined
    /\ SameAs(Sequential(1, 0))
    /\ ~SameAs(Sequential(0, 1))

====
